---------------------------- MODULE Spec2Model ----------------------------
(***************************************************************************)
(* Model of the rosrust_async bridge: the blocking oneshot rendezvous      *)
(* (oneshot_blocking.rs), the Service bridge and its RequestHandle         *)
(* (service.rs), the ActionServer hand-off and the ActionHandle feedback   *)
(* call (action.rs), the Subscriber fan-out (subscriber.rs), the           *)
(* availability wait (lib.rs) and the Publisher / Client calls             *)
(* (publisher.rs, client.rs).                                              *)
(*                                                                         *)
(* Every component has its own specification over the shared variables:    *)
(*   SpecChan     one sender/receiver pair driven by arbitrary callers     *)
(*   SpecService  handler threads, the hand-off queue and the consumer     *)
(*   FairService  SpecService with handler threads that keep running       *)
(*   LiveService  SpecService with a consumer that replies to every        *)
(*                handle, under the fairness of threads that keep running  *)
(*   SpecAction   one ActionHandle and its publish_feedback calls          *)
(*   SpecGoals    the goal-accept callback, the hand-off queue and recv    *)
(*   SpecSub      the subscription callback and the Subscribers            *)
(*   FairSub      SpecSub with Subscriber tasks that are polled            *)
(*   SpecClient   wait_until_available and the calls of one Publisher or   *)
(*                Client                                                   *)
(*   LiveClient   SpecClient with blocking workers that keep running       *)
(*   SpecFreq     the tick, clear and run calls that threads make on one   *)
(*                FrequencyStatus of rosrust_diagnostics                   *)
(*                (tasks/frequency_status.rs)                              *)
(***************************************************************************)
EXTENDS Integers, Sequences, FiniteSets, TLC

(* ------------------------------ bounds -------------------------------- *)
\* try_recv calls made on one receiver
MaxTry == 2
\* service handler invocations (one thread each)
NHandlers == 2
\* distinct response bodies
NBody == 1
\* publish_feedback calls made on one ActionHandle
MaxFeedback == 3
\* messages the node runtime delivers to the subscription callback
MaxMsgs == 3
\* Subscribers: the one subscribe returns, and its clones
NSubs == 2
\* goals the action layer hands to the goal-accept callback
NGoals == 18
\* send / req calls made on one Publisher / Client
MaxCalls == 2
\* largest window_size a FrequencyStatus is built with
MaxWindow == 2
\* tick calls between two clears
MaxTicks == 2
\* threads calling FrequencyStatus::run
NRunners == 2

(* --------------------------- program constants ------------------------ *)
\* mpsc::channel(1) of the Service bridge
QueueCap == 1
\* broadcast::channel(1) of subscribe
BroadcastCap == 1
\* mpsc::channel(16) of the ActionServer bridge
ActionQueueCap == 16

Bodies == 1..NBody
\* Result<Response, String>: the payload type the Service bridge sends
Payloads == [kind : {"Ok", "Err"}, body : Bodies]
NoVal == [kind |-> "None", body |-> 0]

Handlers == 1..NHandlers
\* one reply channel per handler invocation
Chans == 1..NHandlers

VARIABLES
    \* oneshot_blocking: per pair
    slot,       \* State<T> behind the mutex
    spc,        \* Sender: "none" | "alive" | "sending" | "gone"
    rpc,        \* Receiver: "none" | "alive" | "waiting" | "returning" | "gone"
    notified,   \* a notify_one reached the thread waiting on the condvar
    sendRes,    \* what send returned: NoRes, Ok(()) or Err(val)
    recvRes,    \* what recv returned: NoRes, Ok(val) or Err(RecvError)
    tryLog,     \* what each try_recv call returned, with the sender's state then
    given,      \* the value send was called with
    \* service.rs
    nchan,      \* reply channels created so far
    hpc,        \* handler closure: "idle" | "send" | "recv" | "returned" | "panicked"
    hchan,      \* the receiver the invocation holds (`response`)
    hhandle,    \* the RequestHandle the invocation has made and not yet enqueued
    waited,     \* the invocation found the hand-off queue full
    hret,       \* what the invocation returned to the node runtime
    queue,      \* the mpsc hand-off queue of RequestHandles
    held,       \* RequestHandles the consumer holds
    givenReq,   \* per reply channel: the request of the handle that reply was made on
    replies,    \* per reply channel: send_ok / send_err calls made on its handle
    dropped,    \* per reply channel: its handle was dropped without a reply
    cpc         \* consumer task: "run" | "panicked"

    \* action.rs: one ActionHandle and its publish_feedback calls
VARIABLES
    ahAlive,    \* the ActionHandle exists
    fut,        \* the future of call k: "none" | "awaiting" | "returned" | "abandoned"
    wk,         \* the spawn_blocking worker of call k: "none" | "running" | "done"
    fbRes,      \* what the worker's publish_feedback produced: "none" | "ok" | "err"
    dangling    \* a worker read the goal handle after the ActionHandle was dropped

    \* subscriber.rs: the broadcast fan-out and its Subscribers
VARIABLES
    arrived,    \* messages the node runtime has delivered to the callback
    bpos,       \* broadcast tail position: messages accepted by send
    buf,        \* broadcast ring: slot index -> [pos, val]
    sub,        \* Subscriber c: "none" | "idle" | "polling" | "pending"
    rxNext,     \* the read cursor of Subscriber c's broadcast::Receiver
    lagged,     \* the current recv call of c has seen RecvError::Lagged
    ret,        \* what the last finished recv call of c returned, whether it had
                \* lagged, and the newest message delivered by then
    registered, \* the node runtime holds the push callback (and its tx_clone)
    cb,         \* the push callback: "idle" | "blocked" (parked inside send)
    got,        \* the messages the recv calls of Subscriber c have returned
    born        \* messages delivered before Subscriber c was created

    \* action.rs: the ActionServer hand-off
VARIABLES
    ngoal,      \* goals the callback has been invoked with
    aq,         \* the mpsc hand-off queue of ActionHandles (by goal number)
    aparked,    \* callbacks parked in blocking_send, in the order they wait
    taken       \* the ActionHandles ActionServer::recv has returned, in order

    \* lib.rs: wait_until_available, and the node runtime state it reads
VARIABLES
    shutdown,   \* shutdown was requested: rosrust::is_ok() is false
    svcUp,      \* the service is registered with the master
    wpc,        \* the wait: "idle" | "probing" | "done"
    wres,       \* its result: "none" | "Ok" | "Shutdown" | "Other"
    lastProbe,  \* what the last wait_for_service returned: "none" | "Ok" | "Timeout" | "Other"
    tick,       \* flips at every probe
    retried     \* a timed-out probe was retried

    \* publisher.rs / client.rs: one Publisher or Client and its calls
VARIABLES
    bridge,     \* "pub" | "cli"
    built,       \* the Publisher / Client: "no" | "yes" | "failed"
    ncall,      \* send / req calls started so far
    cfut,       \* the future of call k: "none" | "awaiting" | "returned" | "abandoned"
    cwk,        \* its spawn_blocking worker: "none" | "queued" | "running" | "done"
    cout,       \* the outcome of the worker's transmit: "none" | "ok" | "err"
    cret,       \* what the future returned: "none" | "ok" | "err"
    wire,       \* the calls in the order their transmits began
    prior       \* the earlier calls whose future had ended when call k was made

    \* frequency_status.rs: one FrequencyStatus
VARIABLES
    tracker,    \* the Tracker behind the mutex: count, history (the counts of
                \* its entries, front first), window_size
    runpc,      \* run on thread r: "idle" | "computing" (the lock released)
    runEnd,     \* its end_count while it computes
    runStart,   \* its history_start.count while it computes
    status      \* the Status the last run to finish filled in: "none" |
                \* "missing" | "events" | "underflow", and its "Events in window"

chanVars == <<slot, spc, rpc, notified, sendRes, recvRes, tryLog, given>>
svcVars == <<nchan, hpc, hchan, hhandle, waited, hret, queue, held, givenReq, replies, dropped, cpc>>
actVars == <<ahAlive, fut, wk, fbRes, dangling>>
subVars == <<arrived, bpos, buf, sub, rxNext, lagged, ret, registered, cb, got, born>>
goalVars == <<ngoal, aq, aparked, taken>>
waitVars == <<shutdown, svcUp, wpc, wres, lastProbe, tick, retried>>
callVars == <<bridge, built, ncall, cfut, cwk, cout, cret, wire, prior>>
freqVars == <<tracker, runpc, runEnd, runStart, status>>
otherVars == <<goalVars, waitVars, callVars, freqVars>>
restVars == <<actVars, subVars, otherVars>>
vars == <<chanVars, svcVars, actVars, subVars, otherVars>>

(* ===================== oneshot_blocking.rs ============================= *)

NotSent == [tag |-> "NotSent", val |-> NoVal]
Closed == [tag |-> "Closed", val |-> NoVal]
Sent(v) == [tag |-> "Sent", val |-> v]

\* results of send, recv: Ok(()) / Err(val), Ok(val) / Err(RecvError)
NoRes == [kind |-> "None", val |-> NoVal]
OkUnit == [kind |-> "Ok", val |-> NoVal]
OkVal(v) == [kind |-> "Ok", val |-> v]
RecvError == [kind |-> "Err", val |-> NoVal]
SendErr(v) == [kind |-> "Err", val |-> v]

\* State::take: std::mem::replace(self, State::NotSent); the old state is
\* returned, NotSent is left behind whatever the old state was.
take(s) == [old |-> s, new |-> NotSent]

\* Sender::send, under the lock: Err(val) on Closed, else store Sent(val)
sendNoNotify(s, v) ==
    IF s.tag = "Closed"
    THEN [new |-> s, res |-> SendErr(v), notify |-> FALSE]
    ELSE [new |-> Sent(v), res |-> OkUnit, notify |-> FALSE]
send(s, v) ==
    IF s.tag = "Closed"
    THEN [new |-> s, res |-> SendErr(v), notify |-> FALSE]
    ELSE [new |-> Sent(v), res |-> OkUnit, notify |-> TRUE]

\* Drop for Sender / Drop for Receiver, under the lock
dropNoClose(s) == [new |-> s, notify |-> FALSE]
drop(s) ==
    IF s.tag = "NotSent"
    THEN [new |-> Closed, notify |-> TRUE]
    ELSE [new |-> s, notify |-> FALSE]

\* channel(): a fresh pair sharing one NotSent slot
ChanNew(i) ==
    /\ slot' = [slot EXCEPT ![i] = NotSent]
    /\ spc' = [spc EXCEPT ![i] = "alive"]
    /\ rpc' = [rpc EXCEPT ![i] = "alive"]
    /\ notified' = [notified EXCEPT ![i] = FALSE]
    /\ sendRes' = [sendRes EXCEPT ![i] = NoRes]
    /\ recvRes' = [recvRes EXCEPT ![i] = NoRes]
    /\ tryLog' = [tryLog EXCEPT ![i] = <<>>]
    /\ given' = [given EXCEPT ![i] = NoVal]

\* condvar.notify_one(): wakes the thread blocked in condvar.wait, if any
Notify(i, n) ==
    notified' = [notified EXCEPT ![i] = @ \/ (n /\ rpc[i] = "waiting")]

\* Sender::send up to the release of the lock; self is dropped afterwards
ChanSend(i, v) ==
    /\ spc[i] = "alive"
    /\ LET r == send(slot[i], v) IN
        /\ slot' = [slot EXCEPT ![i] = r.new]
        /\ sendRes' = [sendRes EXCEPT ![i] = r.res]
        /\ Notify(i, r.notify)
    /\ spc' = [spc EXCEPT ![i] = "sending"]
    /\ given' = [given EXCEPT ![i] = v]
    /\ UNCHANGED <<rpc, recvRes, tryLog>>

\* Drop for Sender: of a sender dropped unused, or of self at the end of send
ChanSenderDrop(i) ==
    /\ spc[i] \in {"alive", "sending"}
    /\ LET r == drop(slot[i]) IN
        /\ slot' = [slot EXCEPT ![i] = r.new]
        /\ Notify(i, r.notify)
    /\ spc' = [spc EXCEPT ![i] = "gone"]
    /\ UNCHANGED <<rpc, sendRes, recvRes, tryLog, given>>

\* One pass of the loop of Receiver::recv with the lock held: the first one
\* (from "alive") or the one after a wake-up (from "waiting").
RecvPass(i) ==
    LET r == take(slot[i]) IN
    /\ slot' = [slot EXCEPT ![i] = r.new]
    /\ notified' = [notified EXCEPT ![i] = FALSE]
    /\ CASE r.old.tag = "Sent" ->
              /\ recvRes' = [recvRes EXCEPT ![i] = OkVal(r.old.val)]
              /\ rpc' = [rpc EXCEPT ![i] = "returning"]
         [] r.old.tag = "Closed" ->
              /\ recvRes' = [recvRes EXCEPT ![i] = RecvError]
              /\ rpc' = [rpc EXCEPT ![i] = "returning"]
         [] OTHER ->
              /\ recvRes' = recvRes
              /\ rpc' = [rpc EXCEPT ![i] = "waiting"]
    /\ UNCHANGED <<spc, sendRes, tryLog, given>>

ChanRecv(i) == rpc[i] = "alive" /\ RecvPass(i)

\* condvar.wait returns after a notify_one. (A spurious wake-up finds what the
\* previous pass found and changes nothing: the slot only leaves NotSent
\* together with a notify_one.)
ChanRecvWake(i) == rpc[i] = "waiting" /\ notified[i] /\ RecvPass(i)

\* Receiver::try_recv
ChanTryRecv(i) ==
    /\ rpc[i] = "alive"
    /\ Len(tryLog[i]) < MaxTry
    /\ LET r == take(slot[i])
           res == CASE r.old.tag = "Sent" -> "Ok"
                    [] r.old.tag = "Closed" -> "Closed"
                    [] OTHER -> "Empty"
       IN
        /\ slot' = [slot EXCEPT ![i] = r.new]
        /\ tryLog' = [tryLog EXCEPT ![i] =
                        Append(@, [res |-> res, val |-> r.old.val,
                                   sender |-> spc[i], sent |-> sendRes[i].kind = "Ok"])]
    /\ UNCHANGED <<spc, rpc, notified, sendRes, recvRes, given>>

\* Drop for Receiver: of a receiver dropped unused, or of self at the end of recv
ChanReceiverDrop(i) ==
    /\ rpc[i] \in {"alive", "returning"}
    /\ LET r == drop(slot[i]) IN
        /\ slot' = [slot EXCEPT ![i] = r.new]
        /\ Notify(i, r.notify)
    /\ rpc' = [rpc EXCEPT ![i] = "gone"]
    /\ UNCHANGED <<spc, sendRes, recvRes, tryLog, given>>

(* ========================== service.rs ================================= *)

NoHandle == [request |-> 0, tx |-> 0]

\* RequestHandle::new_pair: a fresh oneshot channel; the receiver goes to the
\* handler, the sender into the handle beside the request. n pairs exist.
NewPairSharedSender(req, n) == [rx |-> n + 1, handle |-> [request |-> req, tx |-> 1]]
NewPair(req, n) == [rx |-> n + 1, handle |-> [request |-> req, tx |-> n + 1]]

\* The handler closure is entered with request t (one invocation per thread):
\* new_pair(req), then tx.blocking_send(handle), which pushes the handle if a
\* permit is free and parks the thread if the queue is full.
HandlerInvokeNoBackpressure(t) ==
    /\ hpc[t] = "idle"
    /\ LET p == NewPair(t, nchan) IN
        /\ ChanNew(p.rx)
        /\ hchan' = [hchan EXCEPT ![t] = p.rx]
        /\ queue' = Append(queue, p.handle)
        /\ hpc' = [hpc EXCEPT ![t] = "recv"]
    /\ nchan' = nchan + 1
    /\ UNCHANGED <<hhandle, waited, hret, held, givenReq, replies, dropped, cpc>>
    /\ UNCHANGED restVars
HandlerInvoke(t) ==
    /\ hpc[t] = "idle"
    /\ LET p == NewPair(t, nchan) IN
        /\ ChanNew(p.rx)
        /\ hchan' = [hchan EXCEPT ![t] = p.rx]
        /\ IF Len(queue) < QueueCap
           THEN /\ queue' = Append(queue, p.handle)
                /\ hhandle' = hhandle
                /\ waited' = waited
                /\ hpc' = [hpc EXCEPT ![t] = "recv"]
           ELSE /\ queue' = queue
                /\ hhandle' = [hhandle EXCEPT ![t] = p.handle]
                /\ waited' = [waited EXCEPT ![t] = TRUE]
                /\ hpc' = [hpc EXCEPT ![t] = "send"]
    /\ nchan' = nchan + 1
    /\ UNCHANGED <<hret, held, givenReq, replies, dropped, cpc>>
    /\ UNCHANGED restVars

\* the parked tx.blocking_send(handle) gets a permit and pushes the handle
HandlerEnqueue(t) ==
    /\ hpc[t] = "send"
    /\ Len(queue) < QueueCap
    /\ queue' = Append(queue, hhandle[t])
    /\ hhandle' = [hhandle EXCEPT ![t] = NoHandle]
    /\ hpc' = [hpc EXCEPT ![t] = "recv"]
    /\ UNCHANGED <<chanVars, nchan, hchan, waited, hret, held, givenReq, replies,
                   dropped, cpc>>
    /\ UNCHANGED restVars

\* match response.recv(): one pass of recv's loop. On NotSent the thread
\* waits on the condvar. On Sent or Closed recv returns, its Receiver is
\* dropped, and the closure ends: Ok(resp) => return resp,
\* Err(_) => panic!("Handle was dropped before responding").
HandlerPassGivesUp(t) ==
    LET i == hchan[t]
        r == take(slot[i])
    IN
    /\ notified' = [notified EXCEPT ![i] = FALSE]
    /\ slot' = [slot EXCEPT ![i] = drop(r.new).new]
    /\ rpc' = [rpc EXCEPT ![i] = "gone"]
    /\ recvRes' = [recvRes EXCEPT ![i] =
                      IF r.old.tag = "Sent" THEN OkVal(r.old.val) ELSE RecvError]
    /\ hret' = [hret EXCEPT ![t] = IF r.old.tag = "Sent" THEN r.old.val ELSE @]
    /\ hpc' = [hpc EXCEPT ![t] =
                  IF r.old.tag = "Sent" THEN "returned" ELSE "panicked"]
    /\ UNCHANGED <<spc, sendRes, tryLog, given>>
    /\ UNCHANGED <<nchan, hchan, hhandle, waited, queue, held, givenReq, replies,
                   dropped, cpc>>
    /\ UNCHANGED restVars
HandlerPass(t) ==
    LET i == hchan[t]
        r == take(slot[i])
    IN
    /\ notified' = [notified EXCEPT ![i] = FALSE]
    /\ IF r.old.tag = "NotSent"
       THEN /\ slot' = [slot EXCEPT ![i] = r.new]
            /\ rpc' = [rpc EXCEPT ![i] = "waiting"]
            /\ UNCHANGED <<recvRes, hret, hpc>>
       ELSE /\ slot' = [slot EXCEPT ![i] = drop(r.new).new]
            /\ rpc' = [rpc EXCEPT ![i] = "gone"]
            /\ recvRes' = [recvRes EXCEPT ![i] =
                              IF r.old.tag = "Sent" THEN OkVal(r.old.val) ELSE RecvError]
            /\ hret' = [hret EXCEPT ![t] = IF r.old.tag = "Sent" THEN r.old.val ELSE @]
            /\ hpc' = [hpc EXCEPT ![t] =
                          IF r.old.tag = "Sent" THEN "returned" ELSE "panicked"]
    /\ UNCHANGED <<spc, sendRes, tryLog, given>>
    /\ UNCHANGED <<nchan, hchan, hhandle, waited, queue, held, givenReq, replies,
                   dropped, cpc>>
    /\ UNCHANGED restVars

\* response.recv() takes the lock
HandlerRecv(t) ==
    /\ hpc[t] = "recv"
    /\ rpc[hchan[t]] = "alive"
    /\ HandlerPass(t)

\* condvar.wait returns after a notify_one
HandlerWake(t) ==
    /\ hpc[t] = "recv"
    /\ rpc[hchan[t]] = "waiting"
    /\ notified[hchan[t]]
    /\ HandlerPass(t)

\* Service::next_request: self.rx.recv().await
NextRequest ==
    /\ cpc = "run"
    /\ queue # <<>>
    /\ held' = held \cup {Head(queue)}
    /\ queue' = Tail(queue)
    /\ UNCHANGED <<chanVars, nchan, hpc, hchan, hhandle, waited, hret, givenReq,
                   replies, dropped, cpc>>
    /\ UNCHANGED restVars

\* self.tx.send(v) of send_ok / send_err, up to the release of the lock
Reply(h, v) ==
    /\ cpc = "run"
    /\ h \in held
    /\ ChanSend(h.tx, v)
    /\ held' = held \ {h}
    /\ givenReq' = [givenReq EXCEPT ![h.tx] = h.request]
    /\ replies' = [replies EXCEPT ![h.tx] = @ + 1]
    /\ cpc' = "sent"
    /\ UNCHANGED <<nchan, hpc, hchan, hhandle, waited, hret, queue, dropped>>
    /\ UNCHANGED restVars

\* RequestHandle::send_ok(response)
SendOk(h) == \E b \in Bodies : Reply(h, [kind |-> "Ok", body |-> b])

\* RequestHandle::send_err(msg); the messages are not told apart
SendErrMsg(h) == Reply(h, [kind |-> "Err", body |-> 1])

\* the end of send_ok / send_err: the Sender is dropped as send returns, then
\* if let Err(_) = ... { panic!("failed to send value") }
ReplyFinish ==
    /\ cpc = "sent"
    /\ \E i \in Chans :
        /\ spc[i] = "sending"
        /\ ChanSenderDrop(i)
        /\ cpc' = IF sendRes[i].kind = "Err" THEN "panicked" ELSE "run"
    /\ UNCHANGED <<nchan, hpc, hchan, hhandle, waited, hret, queue, held, givenReq,
                   replies, dropped>>
    /\ UNCHANGED restVars

\* a RequestHandle goes out of scope unanswered: its Sender is dropped
DropHandle(h) ==
    /\ cpc = "run"
    /\ h \in held
    /\ spc[h.tx] = "alive"
    /\ ChanSenderDrop(h.tx)
    /\ held' = held \ {h}
    /\ dropped' = [dropped EXCEPT ![h.tx] = TRUE]
    /\ UNCHANGED <<nchan, hpc, hchan, hhandle, waited, hret, queue, givenReq, replies,
                   cpc>>
    /\ UNCHANGED restVars

(* ============================ action.rs ================================ *)
Calls == 1..MaxFeedback

InitAct ==
    /\ ahAlive = TRUE
    /\ fut = [k \in Calls |-> "none"]
    /\ wk = [k \in Calls |-> "none"]
    /\ fbRes = [k \in Calls |-> "none"]
    /\ dangling = FALSE

\* ActionHandle::publish_feedback is called and polled: the reference to
\* self.handle is transmuted to 'static and moved into a spawn_blocking
\* worker, and the future awaits the JoinHandle. It takes &self and looks at
\* no other call in flight.
PublishFeedback(k) ==
    /\ ahAlive
    /\ fut[k] = "none"
    /\ fut' = [fut EXCEPT ![k] = "awaiting"]
    /\ wk' = [wk EXCEPT ![k] = "running"]
    /\ UNCHANGED <<ahAlive, fbRes, dangling>>
    /\ UNCHANGED <<chanVars, svcVars, subVars, otherVars>>

\* the worker: handle.handle().publish_feedback(feedback) returns true or
\* false; it reads the goal handle through the 'static reference, which
\* dangles once the ActionHandle is gone
WorkerFinish(k) ==
    /\ wk[k] = "running"
    /\ wk' = [wk EXCEPT ![k] = "done"]
    /\ \E r \in {"ok", "err"} : fbRes' = [fbRes EXCEPT ![k] = r]
    /\ dangling' = (dangling \/ ~ahAlive)
    /\ UNCHANGED <<ahAlive, fut>>
    /\ UNCHANGED <<chanVars, svcVars, subVars, otherVars>>

\* .await.unwrap(): the JoinHandle resolves and publish_feedback returns
FeedbackReturn(k) ==
    /\ fut[k] = "awaiting"
    /\ wk[k] = "done"
    /\ fut' = [fut EXCEPT ![k] = "returned"]
    /\ UNCHANGED <<ahAlive, wk, fbRes, dangling>>
    /\ UNCHANGED <<chanVars, svcVars, subVars, otherVars>>

\* the awaiting task drops the future at its await point (select!, timeout,
\* task abort): the JoinHandle is dropped with it, which detaches the
\* spawn_blocking worker and does not stop it
FeedbackAbandon(k) ==
    /\ fut[k] = "awaiting"
    /\ fut' = [fut EXCEPT ![k] = "abandoned"]
    /\ UNCHANGED <<ahAlive, wk, fbRes, dangling>>
    /\ UNCHANGED <<chanVars, svcVars, subVars, otherVars>>

\* the ActionHandle is dropped; no future borrows it (&self) at that point
ActionHandleDrop ==
    /\ ahAlive
    /\ \A k \in Calls : fut[k] # "awaiting"
    /\ ahAlive' = FALSE
    /\ UNCHANGED <<fut, wk, fbRes, dangling>>
    /\ UNCHANGED <<chanVars, svcVars, subVars, otherVars>>

(* --------------------- action.rs: ActionServer ------------------------- *)
\* ActionServer::new: an empty mpsc::channel(16), the goal-accept callback
\* registered with its sender. The ActionServer, and so the receiver, lives.
InitGoals ==
    /\ ngoal = 0
    /\ aq = <<>>
    /\ aparked = <<>>
    /\ taken = <<>>

\* the goal-accept callback is invoked with the next goal:
\* tx.blocking_send(ActionHandle { handle }) pushes the handle if a permit is
\* free, and else parks the callback's thread behind the ones already parked
\* (a freed permit goes to the longest waiter, never to a newcomer)
GoalAcceptUnbounded ==
    /\ ngoal < NGoals
    /\ ngoal' = ngoal + 1
    /\ aq' = Append(aq, ngoal + 1)
    /\ UNCHANGED <<aparked, taken>>
    /\ UNCHANGED <<chanVars, svcVars, actVars, subVars, waitVars, callVars, freqVars>>
GoalAccept ==
    /\ ngoal < NGoals
    /\ ngoal' = ngoal + 1
    /\ IF Len(aq) < ActionQueueCap /\ aparked = <<>>
       THEN aq' = Append(aq, ngoal + 1) /\ aparked' = aparked
       ELSE aq' = aq /\ aparked' = Append(aparked, ngoal + 1)
    /\ UNCHANGED taken
    /\ UNCHANGED <<chanVars, svcVars, actVars, subVars, waitVars, callVars, freqVars>>

\* the longest-parked blocking_send gets the freed permit and pushes
GoalEnqueueNewestFirst ==
    /\ aparked # <<>>
    /\ Len(aq) < ActionQueueCap
    /\ aq' = Append(aq, aparked[Len(aparked)])
    /\ aparked' = SubSeq(aparked, 1, Len(aparked) - 1)
    /\ UNCHANGED <<ngoal, taken>>
    /\ UNCHANGED <<chanVars, svcVars, actVars, subVars, waitVars, callVars, freqVars>>
GoalEnqueue ==
    /\ aparked # <<>>
    /\ Len(aq) < ActionQueueCap
    /\ aq' = Append(aq, Head(aparked))
    /\ aparked' = Tail(aparked)
    /\ UNCHANGED <<ngoal, taken>>
    /\ UNCHANGED <<chanVars, svcVars, actVars, subVars, waitVars, callVars, freqVars>>

\* ActionServer::recv: self.rx.recv().await.unwrap()
ActionRecv ==
    /\ aq # <<>>
    /\ taken' = Append(taken, Head(aq))
    /\ aq' = Tail(aq)
    /\ UNCHANGED <<ngoal, aparked>>
    /\ UNCHANGED <<chanVars, svcVars, actVars, subVars, waitVars, callVars, freqVars>>

(* ============================= lib.rs ================================== *)
InitWait ==
    /\ shutdown = FALSE
    /\ svcUp = FALSE
    /\ wpc = "idle"
    /\ wres = "none"
    /\ lastProbe = "none"
    /\ tick = FALSE
    /\ retried = FALSE

\* rosrust::wait_for_service(&topic, Some(100ms)): Ok once the service is
\* registered, a timeout error while it is not, or another error
ProbeOutcomes(up) == IF up THEN {"Ok", "Other"} ELSE {"Timeout", "Other"}

\* the match of wait_until_available on one probe result, with the value
\* rosrust::is_ok() has then
ClassifyTimeoutIsError(outcome, isOk) ==
    CASE outcome = "Timeout" -> "Other"
      [] outcome = "Ok" -> "Ok"
      [] OTHER -> "Other"
ClassifyIgnoresShutdown(outcome, isOk) ==
    CASE outcome = "Timeout" -> "retry"
      [] outcome = "Ok" -> "Ok"
      [] OTHER -> "Other"
Classify(outcome, isOk) ==
    CASE outcome = "Timeout" -> IF isOk THEN "retry" ELSE "Shutdown"
      [] outcome = "Ok" -> "Ok"
      [] OTHER -> "Other"

\* the node is asked to shut down
Shutdown ==
    /\ ~shutdown
    /\ shutdown' = TRUE
    /\ UNCHANGED <<svcUp, wpc, wres, lastProbe, tick, retried>>
    /\ UNCHANGED <<chanVars, svcVars, actVars, subVars, goalVars, callVars, freqVars>>

\* the service gets registered
Register ==
    /\ ~svcUp
    /\ svcUp' = TRUE
    /\ UNCHANGED <<shutdown, wpc, wres, lastProbe, tick, retried>>
    /\ UNCHANGED <<chanVars, svcVars, actVars, subVars, goalVars, callVars, freqVars>>

\* Client::new calls wait_until_available, which moves its loop to a
\* spawn_blocking worker and awaits it
WaitStart ==
    /\ bridge = "cli"
    /\ wpc = "idle"
    /\ wpc' = "probing"
    /\ UNCHANGED <<shutdown, svcUp, wres, lastProbe, tick, retried>>
    /\ UNCHANGED <<chanVars, svcVars, actVars, subVars, goalVars, callVars, freqVars>>

\* one round of the loop: the probe, and the match on its result
WaitProbe ==
    /\ wpc = "probing"
    /\ \E o \in ProbeOutcomes(svcUp) :
        LET d == Classify(o, ~shutdown) IN
        /\ lastProbe' = o
        /\ IF d = "retry"
           THEN wpc' = wpc /\ wres' = wres /\ retried' = TRUE
           ELSE wpc' = "done" /\ wres' = d /\ retried' = retried
    /\ tick' = ~tick
    /\ UNCHANGED <<shutdown, svcUp>>
    /\ UNCHANGED <<chanVars, svcVars, actVars, subVars, goalVars, callVars, freqVars>>

(* ==================== publisher.rs / client.rs ========================= *)
CallIds == 1..MaxCalls

\* publish() has returned a Publisher; or Client::new is about to be called
InitCall(b) ==
    /\ bridge = b
    /\ built = IF bridge = "pub" THEN "yes" ELSE "no"
    /\ ncall = 0
    /\ cfut = [k \in CallIds |-> "none"]
    /\ cwk = [k \in CallIds |-> "none"]
    /\ cout = [k \in CallIds |-> "none"]
    /\ cret = [k \in CallIds |-> "none"]
    /\ wire = <<>>
    /\ prior = [k \in CallIds |-> {}]

\* Client::new after the wait returned Ok: rosrust::client(topic)?
ClientMake ==
    /\ bridge = "cli"
    /\ built = "no"
    /\ wres = "Ok"
    /\ \E r \in {"yes", "failed"} : built' = r
    /\ UNCHANGED <<bridge, ncall, cfut, cwk, cout, cret, wire, prior>>
    /\ UNCHANGED <<chanVars, svcVars, actVars, subVars, goalVars, waitVars, freqVars>>

\* Publisher::send / Client::req is called and polled: a clone of the inner
\* handle and the message move into a spawn_blocking worker, whose
\* JoinHandle the future awaits. send takes &mut self, so no earlier send
\* future of this Publisher is alive; req takes &self.
CallStart ==
    /\ built = "yes"
    /\ ncall < MaxCalls
    /\ bridge = "pub" => \A j \in CallIds : cfut[j] # "awaiting"
    /\ LET k == ncall + 1 IN
        /\ ncall' = k
        /\ cfut' = [cfut EXCEPT ![k] = "awaiting"]
        /\ cwk' = [cwk EXCEPT ![k] = "queued"]
        /\ prior' = [prior EXCEPT ![k] =
                        {j \in 1..ncall : cfut[j] \in {"returned", "abandoned"}}]
    /\ UNCHANGED <<bridge, built, cout, cret, wire>>
    /\ UNCHANGED <<chanVars, svcVars, actVars, subVars, goalVars, waitVars, freqVars>>

\* a thread of the blocking pool takes the worker: inner.send(message) /
\* cli.req(&req) begins
CallRun(k) ==
    /\ cwk[k] = "queued"
    /\ cwk' = [cwk EXCEPT ![k] = "running"]
    /\ wire' = Append(wire, k)
    /\ UNCHANGED <<bridge, built, ncall, cfut, cout, cret, prior>>
    /\ UNCHANGED <<chanVars, svcVars, actVars, subVars, goalVars, waitVars, freqVars>>

\* the synchronous call returns success or a transport error
CallFinish(k) ==
    /\ cwk[k] = "running"
    /\ cwk' = [cwk EXCEPT ![k] = "done"]
    /\ \E r \in {"ok", "err"} : cout' = [cout EXCEPT ![k] = r]
    /\ UNCHANGED <<bridge, built, ncall, cfut, cret, wire, prior>>
    /\ UNCHANGED <<chanVars, svcVars, actVars, subVars, goalVars, waitVars, freqVars>>

\* handle.await.unwrap(): the JoinHandle resolves with the worker's result
CallReturnEarly(k) ==
    /\ cfut[k] = "awaiting"
    /\ cfut' = [cfut EXCEPT ![k] = "returned"]
    /\ cret' = [cret EXCEPT ![k] = cout[k]]
    /\ UNCHANGED <<bridge, built, ncall, cwk, cout, wire, prior>>
    /\ UNCHANGED <<chanVars, svcVars, actVars, subVars, goalVars, waitVars, freqVars>>
CallReturn(k) ==
    /\ cfut[k] = "awaiting"
    /\ cwk[k] = "done"
    /\ cfut' = [cfut EXCEPT ![k] = "returned"]
    /\ cret' = [cret EXCEPT ![k] = cout[k]]
    /\ UNCHANGED <<bridge, built, ncall, cwk, cout, wire, prior>>
    /\ UNCHANGED <<chanVars, svcVars, actVars, subVars, goalVars, waitVars, freqVars>>

\* the awaiting task drops the future mid-await; the JoinHandle goes with
\* it, which detaches the worker and does not stop it
CallAbandonCancels(k) ==
    /\ cfut[k] = "awaiting"
    /\ cfut' = [cfut EXCEPT ![k] = "abandoned"]
    /\ cwk' = [cwk EXCEPT ![k] = IF @ = "queued" THEN "none" ELSE @]
    /\ UNCHANGED <<bridge, built, ncall, cout, cret, wire, prior>>
    /\ UNCHANGED <<chanVars, svcVars, actVars, subVars, goalVars, waitVars, freqVars>>
CallAbandon(k) ==
    /\ cfut[k] = "awaiting"
    /\ cfut' = [cfut EXCEPT ![k] = "abandoned"]
    /\ UNCHANGED <<bridge, built, ncall, cwk, cout, cret, wire, prior>>
    /\ UNCHANGED <<chanVars, svcVars, actVars, subVars, goalVars, waitVars, freqVars>>

(* ======================= frequency_status.rs =========================== *)
Runners == 1..NRunners

\* Tracker::clear: count = 0 and the history refilled with window_size
\* entries of count 0
TrackerClear(tr) ==
    [tr EXCEPT !.count = 0, !.history = [i \in 1..tr.window_size |-> 0]]

\* Tracker::new(window_size): an empty tracker, cleared
TrackerNew(w) == TrackerClear([count |-> 0, history |-> <<>>, window_size |-> w])

NoStatus == [summary |-> "none", events |-> 0]

\* FrequencyStatus::new, with the window_size the builder was given
InitFreq ==
    /\ \E w \in 0..MaxWindow : tracker = TrackerNew(w)
    /\ runpc = [r \in Runners |-> "idle"]
    /\ runEnd = [r \in Runners |-> 0]
    /\ runStart = [r \in Runners |-> 0]
    /\ status = NoStatus

\* FrequencyStatus::tick, under the lock
Tick ==
    /\ tracker.count < MaxTicks
    /\ tracker' = [tracker EXCEPT !.count = @ + 1]
    /\ UNCHANGED <<runpc, runEnd, runStart, status>>
    /\ UNCHANGED <<chanVars, svcVars, actVars, subVars, goalVars, waitVars, callVars>>

\* FrequencyStatus::clear, under the lock
Clear ==
    /\ tracker' = TrackerClear(tracker)
    /\ UNCHANGED <<runpc, runEnd, runStart, status>>
    /\ UNCHANGED <<chanVars, svcVars, actVars, subVars, goalVars, waitVars, callVars>>

\* a run that pops the front entry and pushes nothing back
RunLockedNoPush(r) ==
    /\ runpc[r] = "idle"
    /\ IF tracker.history = <<>>
       THEN /\ status' = [summary |-> "missing", events |-> 0]
            /\ UNCHANGED <<tracker, runpc, runEnd, runStart>>
       ELSE /\ runEnd' = [runEnd EXCEPT ![r] = tracker.count]
            /\ runStart' = [runStart EXCEPT ![r] = Head(tracker.history)]
            /\ tracker' = [tracker EXCEPT !.history = Tail(@)]
            /\ runpc' = [runpc EXCEPT ![r] = "computing"]
            /\ status' = status
    /\ UNCHANGED <<chanVars, svcVars, actVars, subVars, goalVars, waitVars, callVars>>
\* Task::run up to drop(tracker): with the lock held, history_end takes the
\* current count, the front entry is popped and history_end pushed at the
\* back; with no entry to pop the run reports the missing history and
\* returns, pushing nothing
RunLocked(r) ==
    /\ runpc[r] = "idle"
    /\ IF tracker.history = <<>>
       THEN /\ status' = [summary |-> "missing", events |-> 0]
            /\ UNCHANGED <<tracker, runpc, runEnd, runStart>>
       ELSE /\ runEnd' = [runEnd EXCEPT ![r] = tracker.count]
            /\ runStart' = [runStart EXCEPT ![r] = Head(tracker.history)]
            /\ tracker' = [tracker EXCEPT !.history = Append(Tail(@), tracker.count)]
            /\ runpc' = [runpc EXCEPT ![r] = "computing"]
            /\ status' = status
    /\ UNCHANGED <<chanVars, svcVars, actVars, subVars, goalVars, waitVars, callVars>>

\* the rest of run, without the lock: events = end_count -
\* history_start.count on usize, and the status is filled in
RunReport(r) ==
    /\ runpc[r] = "computing"
    /\ status' = IF runEnd[r] >= runStart[r]
                  THEN [summary |-> "events", events |-> runEnd[r] - runStart[r]]
                  ELSE [summary |-> "underflow", events |-> 0]
    /\ runpc' = [runpc EXCEPT ![r] = "idle"]
    /\ runEnd' = [runEnd EXCEPT ![r] = 0]
    /\ runStart' = [runStart EXCEPT ![r] = 0]
    /\ UNCHANGED tracker
    /\ UNCHANGED <<chanVars, svcVars, actVars, subVars, goalVars, waitVars, callVars>>

(* ========================== subscriber.rs ============================== *)
Subs == 1..NSubs
Slots == 0..(BroadcastCap - 1)
NoRet == [kind |-> "None yet", msg |-> 0, newest |-> 0, lagged |-> FALSE]

\* subscribe(): broadcast::channel(1), the callback registered with a clone of
\* the sender, and the first Subscriber holding rx, tx and the registration.
\* An unwritten ring slot carries the position of the lap before the first.
InitSub ==
    /\ arrived = 0
    /\ bpos = 0
    /\ buf = [i \in Slots |-> [pos |-> i - BroadcastCap, val |-> 0]]
    /\ sub = [c \in Subs |-> IF c = 1 THEN "idle" ELSE "none"]
    /\ rxNext = [c \in Subs |-> 0]
    /\ lagged = [c \in Subs |-> FALSE]
    /\ ret = [c \in Subs |-> NoRet]
    /\ registered = TRUE
    /\ cb = "idle"
    /\ got = [c \in Subs |-> <<>>]
    /\ born = [c \in Subs |-> 0]

\* live broadcast receivers: the rx of every Subscriber
RxCount == Cardinality({c \in Subs : sub[c] # "none"})

\* live broadcast senders: the tx of every Subscriber and the tx_clone the
\* callback owns
TxCount == RxCount + (IF registered THEN 1 ELSE 0)

\* the read cursors of the live receivers
Cursors == {rxNext[c] : c \in {d \in Subs : sub[d] # "none"}}

\* broadcast::Sender::send(m) with tail position p and the given receiver
\* cursors: Err without storing when no receiver exists, otherwise the slot
\* of p is overwritten, read or not. It is a synchronous call that never
\* waits for a receiver.
BroadcastSendBounded(b, p, m, cursors) ==
    IF cursors = {}
    THEN [buf |-> b, pos |-> p, res |-> "Err", wait |-> FALSE]
    ELSE IF \E n \in cursors : n + BroadcastCap <= p
    THEN [buf |-> b, pos |-> p, res |-> "None", wait |-> TRUE]
    ELSE [buf |-> [b EXCEPT ![p % BroadcastCap] = [pos |-> p, val |-> m]],
          pos |-> p + 1, res |-> "Ok", wait |-> FALSE]
BroadcastSend(b, p, m, cursors) ==
    IF cursors = {}
    THEN [buf |-> b, pos |-> p, res |-> "Err", wait |-> FALSE]
    ELSE [buf |-> [b EXCEPT ![p % BroadcastCap] = [pos |-> p, val |-> m]],
          pos |-> p + 1, res |-> "Ok", wait |-> FALSE]

\* the subscription callback, invoked by the node runtime with the next
\* message: tx_clone.send(msg), its result ignored
Deliver ==
    /\ registered
    /\ cb = "idle"
    /\ arrived < MaxMsgs
    /\ LET r == BroadcastSend(buf, bpos, arrived + 1, Cursors) IN
        IF r.wait
        THEN /\ cb' = "blocked"
             /\ UNCHANGED <<arrived, bpos, buf>>
        ELSE /\ cb' = cb
             /\ arrived' = arrived + 1
             /\ buf' = r.buf
             /\ bpos' = r.pos
    /\ UNCHANGED <<sub, rxNext, lagged, ret, registered, got, born>>
    /\ UNCHANGED <<chanVars, svcVars, actVars, otherVars>>

\* the node runtime tears the registration down and drops the callback, and
\* with it tx_clone
Teardown ==
    /\ registered
    /\ cb = "idle"
    /\ registered' = FALSE
    /\ UNCHANGED <<arrived, bpos, buf, sub, rxNext, lagged, ret, cb, got, born>>
    /\ UNCHANGED <<chanVars, svcVars, actVars, otherVars>>

\* Subscriber::try_recv: self.rx.recv().await, one poll at cursor n:
\* the message at n; Lagged with the cursor moved to the oldest retained
\* message; Closed when nothing is left and no sender exists; or nothing yet
BroadcastRecvNoAdvance(n) ==
    LET s == buf[n % BroadcastCap] IN
    IF s.pos = n
    THEN [kind |-> "Ok", msg |-> s.val, next |-> n]
    ELSE IF s.pos + BroadcastCap = n
    THEN [kind |-> IF TxCount = 0 THEN "Closed" ELSE "Empty", msg |-> 0, next |-> n]
    ELSE [kind |-> "Lagged", msg |-> 0, next |-> bpos - BroadcastCap]
BroadcastRecvResyncToTail(n) ==
    LET s == buf[n % BroadcastCap] IN
    IF s.pos = n
    THEN [kind |-> "Ok", msg |-> s.val, next |-> n + 1]
    ELSE IF s.pos + BroadcastCap = n
    THEN [kind |-> IF TxCount = 0 THEN "Closed" ELSE "Empty", msg |-> 0, next |-> n]
    ELSE [kind |-> "Lagged", msg |-> 0, next |-> bpos]
BroadcastRecv(n) ==
    LET s == buf[n % BroadcastCap] IN
    IF s.pos = n
    THEN [kind |-> "Ok", msg |-> s.val, next |-> n + 1]
    ELSE IF s.pos + BroadcastCap = n
    THEN [kind |-> IF TxCount = 0 THEN "Closed" ELSE "Empty", msg |-> 0, next |-> n]
    ELSE [kind |-> "Lagged", msg |-> 0, next |-> bpos - BroadcastCap]

\* the loop of Subscriber::recv on the result of try_recv: Ok(msg) => return
\* Some(msg), Err(Closed) => return None, Err(Lagged(_)) => go round again
RecvLoopLagIsEnd(kind) ==
    CASE kind = "Ok" -> "Some" [] kind = "Closed" -> "None" [] kind = "Lagged" -> "None"
      [] OTHER -> "wait"
RecvLoop(kind) ==
    CASE kind = "Ok" -> "Some" [] kind = "Closed" -> "None" [] kind = "Lagged" -> "again"
      [] OTHER -> "wait"

\* one poll of the loop of Subscriber::recv by Subscriber c
SubPoll(c) ==
    LET r == BroadcastRecv(rxNext[c])
        d == RecvLoop(r.kind)
    IN
    /\ rxNext' = [rxNext EXCEPT ![c] = r.next]
    /\ CASE d = "Some" ->
              /\ ret' = [ret EXCEPT ![c] = [kind |-> "Some", msg |-> r.msg, newest |-> arrived,
                                            lagged |-> lagged[c]]]
              /\ got' = [got EXCEPT ![c] = Append(@, r.msg)]
              /\ sub' = [sub EXCEPT ![c] = "idle"]
              /\ lagged' = [lagged EXCEPT ![c] = FALSE]
         [] d = "None" ->
              /\ ret' = [ret EXCEPT ![c] = [kind |-> "None", msg |-> 0, newest |-> arrived,
                                            lagged |-> lagged[c] \/ r.kind = "Lagged"]]
              /\ got' = got
              /\ sub' = [sub EXCEPT ![c] = "idle"]
              /\ lagged' = [lagged EXCEPT ![c] = FALSE]
         [] d = "again" ->
              /\ ret' = ret
              /\ got' = got
              /\ sub' = [sub EXCEPT ![c] = "polling"]
              /\ lagged' = [lagged EXCEPT ![c] = TRUE]
         [] OTHER ->
              /\ ret' = ret
              /\ got' = got
              /\ sub' = [sub EXCEPT ![c] = "pending"]
              /\ lagged' = lagged
    /\ UNCHANGED <<arrived, bpos, buf, registered, cb, born>>
    /\ UNCHANGED <<chanVars, svcVars, actVars, otherVars>>

\* Subscriber::recv is called and polled
SubRecv(c) == sub[c] = "idle" /\ SubPoll(c)

\* the loop goes round after Lagged
SubAgain(c) == sub[c] = "polling" /\ SubPoll(c)

\* the pending recv is woken by a send, or by the last sender going away
SubWake(c) ==
    /\ sub[c] = "pending"
    /\ BroadcastRecv(rxNext[c]).kind # "Empty"
    /\ SubPoll(c)

\* Clone for Subscriber: self.tx.subscribe() starts a cursor at the tail;
\* the clone holds its own tx and a clone of the registration handle
SubClone(c, d) ==
    /\ sub[c] # "none"
    /\ sub[d] = "none"
    /\ sub' = [sub EXCEPT ![d] = "idle"]
    /\ rxNext' = [rxNext EXCEPT ![d] = bpos]
    /\ born' = [born EXCEPT ![d] = arrived]
    /\ UNCHANGED <<arrived, bpos, buf, lagged, ret, registered, cb, got>>
    /\ UNCHANGED <<chanVars, svcVars, actVars, otherVars>>

\* a Subscriber is dropped, between recv calls or with its pending recv
\* future: its rx and its tx go away
SubDrop(c) ==
    /\ sub[c] \in {"idle", "pending"}
    /\ sub' = [sub EXCEPT ![c] = "none"]
    /\ rxNext' = [rxNext EXCEPT ![c] = 0]
    /\ ret' = [ret EXCEPT ![c] = NoRet]
    /\ got' = [got EXCEPT ![c] = <<>>]
    /\ born' = [born EXCEPT ![c] = 0]
    /\ lagged' = [lagged EXCEPT ![c] = FALSE]
    /\ UNCHANGED <<arrived, bpos, buf, registered, cb>>
    /\ UNCHANGED <<chanVars, svcVars, actVars, otherVars>>

(* ------------------------- SpecChan ----------------------------------- *)
InitSvc ==
    /\ nchan = 0
    /\ hpc = [t \in Handlers |-> "idle"]
    /\ hchan = [t \in Handlers |-> 0]
    /\ hhandle = [t \in Handlers |-> NoHandle]
    /\ waited = [t \in Handlers |-> FALSE]
    /\ hret = [t \in Handlers |-> NoVal]
    /\ queue = <<>>
    /\ held = {}
    /\ givenReq = [i \in Chans |-> 0]
    /\ replies = [i \in Chans |-> 0]
    /\ dropped = [i \in Chans |-> FALSE]
    /\ cpc = "run"

\* the pairs in `made` exist (the state channel() returns them in), no other does
InitPairs(made) ==
    /\ slot = [i \in Chans |-> NotSent]
    /\ spc = [i \in Chans |-> IF i \in made THEN "alive" ELSE "none"]
    /\ rpc = [i \in Chans |-> IF i \in made THEN "alive" ELSE "none"]
    /\ notified = [i \in Chans |-> FALSE]
    /\ sendRes = [i \in Chans |-> NoRes]
    /\ recvRes = [i \in Chans |-> NoRes]
    /\ tryLog = [i \in Chans |-> <<>>]
    /\ given = [i \in Chans |-> NoVal]

\* channel() has returned pair 1, which the callers below drive
\* a FrequencyStatus built with the largest window
InitFreqIdle ==
    /\ tracker = TrackerNew(MaxWindow)
    /\ runpc = [r \in Runners |-> "idle"]
    /\ runEnd = [r \in Runners |-> 0]
    /\ runStart = [r \in Runners |-> 0]
    /\ status = NoStatus

InitOther == InitGoals /\ InitWait /\ InitCall("cli") /\ InitFreqIdle

InitChan == InitPairs({1}) /\ InitSvc /\ InitAct /\ InitSub /\ InitOther

Send == \E v \in Payloads : ChanSend(1, v) /\ UNCHANGED <<svcVars, restVars>>
SenderDrop == ChanSenderDrop(1) /\ UNCHANGED <<svcVars, restVars>>
Recv == ChanRecv(1) /\ UNCHANGED <<svcVars, restVars>>
RecvWake == ChanRecvWake(1) /\ UNCHANGED <<svcVars, restVars>>
TryRecv == ChanTryRecv(1) /\ UNCHANGED <<svcVars, restVars>>
ReceiverDrop == ChanReceiverDrop(1) /\ UNCHANGED <<svcVars, restVars>>

NextChan == Send \/ SenderDrop \/ Recv \/ RecvWake \/ TryRecv \/ ReceiverDrop

SpecChan == InitChan /\ [][NextChan]_vars

(* ------------------------- SpecService -------------------------------- *)
AllHandles == [request : Handlers, tx : Chans]

\* the bridges as constructed: no request, feedback call or message yet
InitBridge == InitPairs({}) /\ InitSvc /\ InitAct /\ InitSub /\ InitOther

Invoke == \E t \in Handlers : HandlerInvoke(t)
Enqueue == \E t \in Handlers : HandlerEnqueue(t)
AwaitReply == \E t \in Handlers : HandlerRecv(t)
Wake == \E t \in Handlers : HandlerWake(t)
ReplyOk == \E h \in AllHandles : SendOk(h)
ReplyErr == \E h \in AllHandles : SendErrMsg(h)
Drop == \E h \in AllHandles : DropHandle(h)

NextLive ==
    \/ Invoke \/ Enqueue \/ AwaitReply \/ Wake
    \/ NextRequest \/ ReplyOk \/ ReplyErr \/ ReplyFinish
NextService == NextLive \/ Drop

SpecService == InitBridge /\ [][NextService]_vars

\* a handler thread that can run does run
HandlerFair ==
    \A t \in Handlers :
        WF_vars(HandlerEnqueue(t) \/ HandlerRecv(t) \/ HandlerWake(t))

FairService == SpecService /\ HandlerFair /\ WF_vars(ReplyFinish)

\* the consumer keeps calling next_request and replies to every handle it holds
ConsumerFair ==
    /\ WF_vars(NextRequest)
    /\ WF_vars(ReplyFinish)
    /\ \A i \in Chans :
          WF_vars(\E h \in AllHandles : h.tx = i /\ (SendOk(h) \/ SendErrMsg(h)))

LiveService == InitBridge /\ [][NextLive]_vars /\ HandlerFair /\ ConsumerFair

(* C1: a handler invocation returns exactly the value passed to the handle
   that carried its own request, and no handle's channel is sent to twice. *)
C1_Pairing ==
    /\ \A t \in Handlers :
          hpc[t] = "returned" =>
              /\ replies[hchan[t]] = 1
              /\ givenReq[hchan[t]] = t
              /\ hret[t] = given[hchan[t]]
    /\ \A i \in Chans : replies[i] <= 1
\* replies out of order: the invocation of the second request has returned
\* the Ok reply made on its handle while the handle of the first request is
\* still held unanswered
C1_Witness ==
    \E t \in Handlers : \E h \in held :
        /\ hpc[t] = "returned"
        /\ hchan[t] = 2
        /\ hret[t].kind = "Ok"
        /\ h.tx = 1
        /\ replies[1] = 0

(* C2 as stated: once its handle is dropped unanswered, the invocation never
   terminates, by returning a reply or in any other way. *)
C2_BlockedForever ==
    \A t \in Handlers :
        (hpc[t] # "idle" /\ dropped[hchan[t]]) => hpc[t] \notin {"returned", "panicked"}
(* C2 amended: once its handle is dropped unanswered, the invocation never
   returns a reply: its recv gets the closed error and the invocation ends
   in the panic "Handle was dropped before responding". *)
C2_PanicsOnDrop ==
    /\ [](\A t \in Handlers :
            (hpc[t] # "idle" /\ dropped[hchan[t]]) =>
                /\ hpc[t] # "returned"
                /\ recvRes[hchan[t]].kind \in {"None", "Err"})
    /\ <>[](\A t \in Handlers :
              (hpc[t] # "idle" /\ dropped[hchan[t]]) => hpc[t] = "panicked")
\* a handler blocked in recv when its handle was dropped has panicked
C2_Witness ==
    \E t \in Handlers :
        /\ hpc[t] = "panicked"
        /\ dropped[hchan[t]]
        /\ recvRes[hchan[t]] = RecvError

(* C3: with a consumer that keeps dequeuing and replies to every handle,
   every invocation enqueues its handle, gets its reply and returns. *)
C3_EveryInvocationReturns ==
    <>[](\A t \in Handlers : hpc[t] # "idle" => hpc[t] = "returned")
\* an invocation that found the queue full has returned
C3_Witness == \E t \in Handlers : waited[t] /\ hpc[t] = "returned"

(* ------------------------- SpecAction --------------------------------- *)
Feedback == \E k \in Calls : PublishFeedback(k)
Worker == \E k \in Calls : WorkerFinish(k)
FeedbackDone == \E k \in Calls : FeedbackReturn(k)
Abandon == \E k \in Calls : FeedbackAbandon(k)

NextAction == Feedback \/ Worker \/ FeedbackDone \/ Abandon \/ ActionHandleDrop

SpecAction == InitBridge /\ [][NextAction]_vars

(* --------------------------- SpecGoals -------------------------------- *)
NextGoals == GoalAccept \/ GoalEnqueue \/ ActionRecv

SpecGoals == InitBridge /\ [][NextGoals]_vars

(* --------------------------- SpecClient ------------------------------- *)
Run == \E k \in CallIds : CallRun(k)
Finish == \E k \in CallIds : CallFinish(k)
Return == \E k \in CallIds : CallReturn(k)
GiveUp == \E k \in CallIds : CallAbandon(k)

NextClient ==
    \/ Shutdown \/ Register \/ WaitStart \/ WaitProbe \/ ClientMake
    \/ CallStart \/ Run \/ Finish \/ Return \/ GiveUp

\* a Publisher as publish() returned it, or a Client about to be made
InitClient ==
    /\ InitPairs({}) /\ InitSvc /\ InitAct /\ InitSub /\ InitGoals /\ InitWait
    /\ InitFreqIdle
    /\ \E b \in {"pub", "cli"} : InitCall(b)

SpecClient == InitClient /\ [][NextClient]_vars

\* the blocking pool runs every worker it was given, and a task that is not
\* abandoned is polled when its JoinHandle resolves
LiveClient ==
    /\ SpecClient
    /\ WF_vars(WaitProbe)
    /\ \A k \in CallIds : WF_vars(CallRun(k) \/ CallFinish(k))
    /\ \A k \in CallIds : WF_vars(CallReturn(k))

(* --------------------------- SpecFreq --------------------------------- *)
InitTracker ==
    /\ InitPairs({}) /\ InitSvc /\ InitAct /\ InitSub /\ InitGoals /\ InitWait
    /\ InitCall("cli")
    /\ InitFreq

RunStep == \E r \in Runners : RunLocked(r)
Report == \E r \in Runners : RunReport(r)

NextFreq == Tick \/ Clear \/ RunStep \/ Report

SpecFreq == InitTracker /\ [][NextFreq]_vars

(* --------------------------- SpecSub ---------------------------------- *)
SubscriberRecv == \E c \in Subs : SubRecv(c)
SubscriberAgain == \E c \in Subs : SubAgain(c)
SubscriberWake == \E c \in Subs : SubWake(c)
SubscriberClone == \E c, d \in Subs : SubClone(c, d)
SubscriberDrop == \E c \in Subs : SubDrop(c)

NextSub ==
    \/ Deliver \/ Teardown
    \/ SubscriberRecv \/ SubscriberAgain \/ SubscriberWake
    \/ SubscriberClone \/ SubscriberDrop

SpecSub == InitBridge /\ [][NextSub]_vars

\* the task of a Subscriber whose recv can make progress is polled
FairSub ==
    SpecSub /\ \A c \in Subs : WF_vars(SubRecv(c) \/ SubAgain(c) \/ SubWake(c))

(* C4: the slot of every pair only moves NotSent -> Sent and NotSent -> Closed;
   once Sent or Closed, no operation changes it. *)
C4_SentAndClosedTerminal ==
    [][\A i \in Chans :
          slot'[i] # slot[i] =>
              slot[i].tag = "NotSent" /\ slot'[i].tag \in {"Sent", "Closed"}]_vars

(* C5: a recv is never left blocked with the sender gone: a receiver waiting
   on the condvar while no Sender exists has a wake-up pending. *)
C5_RecvNeverStuckWithoutSender ==
    \A i \in Chans :
        (rpc[i] = "waiting" /\ spc[i] = "gone") => notified[i]

\* send returns Err(val) exactly when the Receiver was dropped first, and
\* leaves the Closed slot alone; otherwise the slot takes Sent(val)
SendFailsIffReceiverGone ==
    [][\A i \in Chans :
          (spc[i] = "alive" /\ spc'[i] = "sending") =>
              /\ (sendRes'[i].kind = "Err") <=> (rpc[i] = "gone")
              /\ sendRes'[i].kind = "Err" => slot'[i] = Closed /\ slot[i] = Closed
              /\ sendRes'[i].kind = "Ok" => slot'[i] = Sent(given'[i])]_vars
\* recv returns the value sent; it returns Err(RecvError) only when no value
\* was sent
RecvOutcome ==
    \A i \in Chans :
        /\ recvRes[i].kind = "Ok" =>
              sendRes[i].kind = "Ok" /\ recvRes[i].val = given[i]
        /\ recvRes[i].kind = "Err" => sendRes[i].kind # "Ok"
(* C6: send fails, with its value, exactly when the receiver was dropped
   first, and the slot then stays Closed; otherwise the slot takes Sent(v)
   and recv returns v; recv returns the closed error only when the sender
   was dropped without sending. *)
C6_SendOutcome == SendFailsIffReceiverGone /\ []RecvOutcome

\* receive calls on pair i that returned a value
TookValue(i) ==
    Cardinality({k \in DOMAIN tryLog[i] : tryLog[i][k].res = "Ok"})
        + (IF recvRes[i].kind = "Ok" THEN 1 ELSE 0)
(* C7: try_recv returns Empty only while the sender is alive and has not
   sent, Closed whenever the sender was dropped without sending, and a sent
   value is returned by at most one receive call. *)
C7_TryRecvFaithful ==
    \A i \in Chans :
        /\ \A k \in DOMAIN tryLog[i] :
              LET e == tryLog[i][k] IN
              /\ e.res = "Empty" => e.sender = "alive"
              /\ (e.sender = "gone" /\ ~e.sent) => e.res = "Closed"
              /\ e.res = "Ok" => e.sent /\ e.val = given[i]
        /\ TookValue(i) <= 1

(* C8: at most one feedback worker per ActionHandle runs at any time: a
   second publish_feedback is serialized after the first or rejected. *)
C8_OneFeedbackWorker ==
    Cardinality({k \in Calls : wk[k] = "running"}) <= 1

(* C9: while a feedback worker runs the ActionHandle is alive, and no
   publish_feedback call finishes, by returning or by being abandoned,
   before its worker has terminated. *)
C9_WorkerWithinHandle ==
    \A k \in Calls :
        /\ wk[k] = "running" => ahAlive
        /\ fut[k] \in {"returned", "abandoned"} => wk[k] = "done"

(* C10: when the callback has delivered more messages than the buffer holds
   before recv is called, recv skips the overwritten ones and returns
   Some(newest message); lag never makes recv return None. *)
C10_LagResync ==
    \A c \in Subs :
        ret[c].lagged => ret[c].kind = "Some" /\ ret[c].msg = ret[c].newest
\* with BroadcastCap + 1 messages delivered before its first recv, the call
\* has returned the last of them
C10_Witness ==
    /\ ret[1].lagged
    /\ ret[1].msg = BroadcastCap + 1
    /\ arrived = BroadcastCap + 1

\* times message m is among the messages the recv calls of c returned
Times(c, m) == Cardinality({k \in DOMAIN got[c] : got[c][k] = m})
\* the message a recv of c returns when it is polled to its end with no
\* further delivery; 0 when it finds none
NextYield(c) ==
    LET r == BroadcastRecv(rxNext[c])
        q == BroadcastRecv(r.next)
    IN CASE r.kind = "Ok" -> r.msg
         [] r.kind = "Lagged" /\ q.kind = "Ok" -> q.msg
         [] OTHER -> 0
(* C11: once exactly one message has been delivered since a clone was made,
   every Subscriber that existed then, the clone included, has either
   returned that message once and will not return it again, or has not yet
   and its next recv returns it; whatever the other Subscribers consumed. *)
C11_CloneIndependence ==
    \A c, d \in Subs :
        (/\ sub[c] # "none" /\ sub[d] # "none"
         /\ born[c] <= born[d]
         /\ arrived = born[d] + 1)
        => Times(c, arrived) + (IF NextYield(c) = arrived THEN 1 ELSE 0) = 1
\* the original and its clone have both returned the one message delivered
\* after the clone was made
C11_Witness ==
    /\ sub[1] # "none" /\ sub[2] # "none"
    /\ born[1] < born[2]
    /\ arrived = born[2] + 1
    /\ Times(1, arrived) = 1
    /\ Times(2, arrived) = 1

(* C17: after the registration is torn down, a recv that has consumed every
   retained message eventually returns None, unless its caller gives the
   Subscriber up first. *)
C17_EndOfStream ==
    \A c \in Subs :
        (~registered /\ sub[c] = "pending")
            ~> (sub[c] = "none" \/ (sub[c] = "idle" /\ ret[c].kind = "None"))

(* C18: the push callback never waits inside send: whatever the buffer and
   the consumers, it is never parked, and while the registration lives the
   next message can always be delivered. *)
C18_CallbackNeverBlocks ==
    /\ cb = "idle"
    /\ (registered /\ arrived < MaxMsgs) => ENABLED Deliver
\* the callback has overwritten a message that a live consumer had not read
C18_Witness ==
    /\ cb = "idle"
    /\ \E c \in Subs : sub[c] # "none" /\ rxNext[c] + BroadcastCap < bpos

(* C19: the messages the recv calls of one Subscriber return are in strictly
   increasing arrival order: none twice, none before an earlier one. *)
C19_ArrivalOrder ==
    \A c \in Subs :
        \A i, j \in DOMAIN got[c] : i < j => got[c][i] < got[c][j]
\* a Subscriber has returned an earlier and a later message with one skipped
\* between them on lag
C19_Witness ==
    \E c \in Subs :
        /\ Len(got[c]) >= 2
        /\ got[c][2] > got[c][1] + 1

\* the RequestHandle invocation t made
HandleOf(t) == [request |-> t, tx |-> hchan[t]]
\* the places the handle of invocation t is at: parked with its thread, in
\* the queue, held by the consumer, answered or dropped by it
PlacesOf(t) ==
    (IF hpc[t] = "send" /\ hhandle[t] = HandleOf(t) THEN 1 ELSE 0)
    + Cardinality({k \in DOMAIN queue : queue[k] = HandleOf(t)})
    + (IF HandleOf(t) \in held THEN 1 ELSE 0)
    + (IF replies[hchan[t]] > 0 \/ dropped[hchan[t]] THEN 1 ELSE 0)
\* the queue holds at most one handle and every handle made is in one place
HandOffBounded ==
    /\ Len(queue) <= 1
    /\ \A t \in Handlers : hpc[t] # "idle" => PlacesOf(t) = 1
\* an invocation parks only on a full queue and leaves only by appending its
\* own handle to a queue with room; next_request takes the head
HandOffSteps ==
    /\ \A t \in Handlers :
        /\ (hpc[t] = "idle" /\ hpc'[t] = "send") => Len(queue) >= 1 /\ queue' = queue
        /\ (hpc[t] = "idle" /\ hpc'[t] = "recv") =>
              queue' = Append(queue, [request |-> t, tx |-> hchan'[t]])
        /\ (hpc[t] = "send" /\ hpc'[t] # "send") =>
              Len(queue) < 1 /\ queue' = Append(queue, HandleOf(t))
    /\ Len(queue') < Len(queue) =>
          held' = held \cup {Head(queue)} /\ queue' = Tail(queue)
(* C15: the Service hand-off queue never holds more than one handle; an
   invocation that finds it full keeps its handle and waits until
   next_request has made room; handles leave the queue in the order they
   entered it; no handle is lost or duplicated. *)
C15_ServiceBackpressure == []HandOffBounded /\ [][HandOffSteps]_vars
\* an invocation that found the queue full has since handed its handle to
\* the consumer, and waits for the reply
C15_Witness ==
    \E t \in Handlers :
        /\ waited[t]
        /\ hpc[t] = "recv"
        /\ HandleOf(t) \in held

(* C16 as stated: at most one ActionHandle is queued awaiting
   ActionServer::recv, a callback arriving while one is queued waits. *)
C16_AtMostOneQueued ==
    /\ Len(aq) <= 1
    /\ (ngoal >= 2 /\ Len(taken) = 0) => aparked # <<>>
\* the goals the callback has been invoked with are queued or parked or
\* taken, and the queue holds at most ActionQueueCap of them
GoalQueueBounded ==
    /\ Len(aq) <= ActionQueueCap
    /\ Len(aq) + Len(aparked) + Len(taken) = ngoal
\* a callback parks only when the queue is full or others wait before it,
\* and a parked callback pushes only into a queue with room
GoalQueueSteps ==
    /\ Len(aparked') > Len(aparked) =>
          (Len(aq) = ActionQueueCap \/ aparked # <<>>) /\ aq' = aq
    /\ Len(aparked') < Len(aparked) =>
          Len(aq) < ActionQueueCap /\ aq' = Append(aq, Head(aparked))
(* C16 amended: the ActionServer hand-off queue has capacity 16: at most 16
   ActionHandles are queued, a callback arriving while 16 are queued blocks
   until recv has dequeued one, and none blocks while there is room and
   nobody waits. *)
C16_QueueBoundedByCap == []GoalQueueBounded /\ [][GoalQueueSteps]_vars
\* a callback is parked behind a queue of 16 handles
C16_Witness == aparked # <<>> /\ Len(aq) = ActionQueueCap

\* what the wait returned follows from its last probe; while it polls, every
\* probe so far timed out
WaitClassified ==
    /\ (wpc = "done") <=> (wres # "none")
    /\ wres = "Ok" => lastProbe = "Ok"
    /\ wres = "Shutdown" => lastProbe = "Timeout" /\ shutdown
    /\ wres = "Other" => lastProbe = "Other"
    /\ wpc = "probing" => lastProbe \in {"none", "Timeout"}
\* one round: a timeout is retried when the shutdown flag is unset and ends
\* the wait with "Shutdown" when it is set; Ok ends it with Ok, any other
\* error with that error
WaitRounds ==
    tick' # tick =>
        /\ (lastProbe' = "Timeout" /\ ~shutdown) => wpc' = "probing" /\ wres' = "none"
        /\ (lastProbe' = "Timeout" /\ shutdown) => wpc' = "done" /\ wres' = "Shutdown"
        /\ lastProbe' = "Ok" => wpc' = "done" /\ wres' = "Ok"
        /\ lastProbe' = "Other" => wpc' = "done" /\ wres' = "Other"
(* C12: wait_until_available returns Ok only after a probe returned Ok;
   a timed-out probe is retried while the shutdown flag is unset and gives
   the "Shutdown" error when it is set; any other probe error is returned
   as it is. A timeout without shutdown never gives a result, and a
   shutdown is never retried. *)
C12_WaitOutcome == []WaitClassified /\ [][WaitRounds]_vars
\* a timeout was retried, and a later timeout with the flag set ended the
\* wait with the shutdown error
C12_Witness == wres = "Shutdown" /\ retried

(* C13: once the service is registered the polling wait ends, with Ok unless
   the probe reported another error; once shutdown is requested the polling
   wait ends, with the shutdown error unless the service came up or the
   probe reported another error. *)
C13_WaitEnds ==
    /\ (wpc = "probing" /\ svcUp)
          ~> (wpc = "done" /\ (wres = "Ok" \/ lastProbe = "Other"))
    /\ (wpc = "probing" /\ shutdown)
          ~> (wpc = "done" /\ (wres = "Shutdown" \/ svcUp \/ lastProbe = "Other"))
\* the service was registered after the wait had begun polling, and the
\* wait returned Ok with no shutdown
C13_Witness == wres = "Ok" /\ retried /\ ~shutdown

\* times call k began its transmit
Transmits(k) == Cardinality({i \in DOMAIN wire : wire[i] = k})
\* a dispatched call has one worker, which transmits at most once; a future
\* returns only its finished worker's outcome, an abandoned one nothing
CallDispatched ==
    \A k \in CallIds :
        /\ cfut[k] # "none" => cwk[k] # "none"
        /\ Transmits(k) = (IF cwk[k] \in {"running", "done"} THEN 1 ELSE 0)
        /\ (cwk[k] = "done") <=> (cout[k] # "none")
        /\ cfut[k] = "returned" => cwk[k] = "done" /\ cret[k] = cout[k]
        /\ cfut[k] # "returned" => cret[k] = "none"
\* a future resolves once: its result and a worker's outcome never change
CallOnce ==
    \A k \in CallIds :
        /\ cret[k] # "none" => cret'[k] = cret[k]
        /\ cout[k] # "none" => cout'[k] = cout[k]
(* C14: a dispatched send / req is transmitted exactly once and runs to its
   end whether or not its future is abandoned; an abandoned future only
   discards the result, a future that is not abandoned resolves once with
   the worker's outcome. *)
C14_NoCancellation ==
    /\ []CallDispatched
    /\ [][CallOnce]_vars
    /\ <>[](\A k \in CallIds :
              cfut[k] # "none" =>
                  cwk[k] = "done" /\ cfut[k] \in {"returned", "abandoned"})
\* the worker of an abandoned call has transmitted and finished
C14_Witness ==
    \E k \in CallIds :
        cfut[k] = "abandoned" /\ cwk[k] = "done" /\ Transmits(k) = 1

\* the place of call k in the order of transmits
PosInWire(k) == CHOOSE i \in DOMAIN wire : wire[i] = k
(* C20 as stated: of two calls made one after the other on one instance,
   the transmit of the first has ended when the transmit of the second
   begins. *)
C20_ProgramOrder ==
    \A k \in CallIds : \A j \in prior[k] :
        cwk[k] \in {"running", "done"} => cwk[j] = "done"
(* C20 amended: of two calls on one instance, the second made after the
   first was awaited to its end, the transmit of the first has ended when
   the transmit of the second begins, and precedes it. *)
C20_OrderWhenAwaited ==
    \A k \in CallIds : \A j \in prior[k] :
        (cfut[j] = "returned" /\ cwk[k] \in {"running", "done"}) =>
            /\ cwk[j] = "done"
            /\ PosInWire(j) < PosInWire(k)
\* two calls, the second made after the first returned, have both returned
C20_Witness ==
    /\ ncall >= 2
    /\ 1 \in prior[2]
    /\ cfut[1] = "returned" /\ cfut[2] = "returned"
    /\ wire = <<1, 2>>

\* the reply channels whose send_ok / send_err was called in this step
RepliedNow == {i \in Chans : replies'[i] > replies[i]}
\* at the call of send_ok / send_err the handler invocation still holds the
\* receiver and the slot is NotSent, so send returns Ok
ReplyFindsReceiver ==
    \A i \in RepliedNow :
        /\ rpc[i] \in {"alive", "waiting"}
        /\ slot[i] = NotSent
        /\ \E t \in Handlers : hchan[t] = i /\ hpc[t] = "recv"
        /\ sendRes'[i] = OkUnit
(* C21: whenever send_ok or send_err is called on a handle got from
   next_request, the invocation that made it still holds the receiving end
   and the slot is NotSent; the send succeeds and the consumer never
   reaches the panic "failed to send value". *)
C21_ReplyNeverPanics ==
    /\ [](cpc # "panicked" /\ \A i \in Chans : sendRes[i].kind # "Err")
    /\ [][ReplyFindsReceiver]_vars
\* every handle has been answered with a successful send, every invocation
\* has returned, and the consumer runs on
C21_Witness ==
    /\ cpc = "run"
    /\ \A i \in Chans : replies[i] = 1 /\ sendRes[i] = OkUnit
    /\ \A t \in Handlers : hpc[t] = "returned"

(* C22: the goals the callback accepted are, in the order it accepted them,
   the handles recv has returned, then the queued ones, then those of the
   parked callbacks: each goal has exactly one handle, returned by at most
   one recv, and recv returns them in acceptance order. *)
C22_GoalsExactlyOnceFifo ==
    taken \o aq \o aparked = [g \in 1..ngoal |-> g]
\* every goal was accepted: recv has returned the first ones, the queue is
\* full again and a callback that found it full is still parked
C22_Witness ==
    /\ Len(taken) >= 1
    /\ Len(aq) = ActionQueueCap
    /\ aparked # <<>>
    /\ ngoal = NGoals

(* C23: between operations the history holds exactly window_size entries,
   every stored count is at most the current count, and the counts a run
   subtracts, taken under the lock, never make "events in window"
   underflow, however tick, clear and run calls of several threads
   interleave. *)
C23_TrackerInvariant ==
    /\ Len(tracker.history) = tracker.window_size
    /\ \A i \in DOMAIN tracker.history : tracker.history[i] <= tracker.count
    /\ \A r \in Runners : runpc[r] = "computing" => runStart[r] <= runEnd[r]
    /\ status.summary # "underflow"
\* a thread is inside run, past the lock, with counts it took before a
\* clear reset the tracker below them, while another has reported events
C23_Witness ==
    /\ tracker.window_size >= 1
    /\ \E r \in Runners : runpc[r] = "computing" /\ runEnd[r] > tracker.count
    /\ status.summary = "events" /\ status.events >= 1

=============================================================================
